---- MODULE Spec2Model ----
(***************************************************************************)
(* Model of the Bond class of bond_price_val.ipynb (first notebook cell)   *)
(* and of the calls the later cells make on it.                            *)
(*                                                                         *)
(* Numbers.  The class computes with Python floats.  A float is modelled   *)
(* as a decimal floating-point number <<m, e>> (value m * 10^e) whose      *)
(* mantissa m has exactly eight significant digits (or is 0), and every    *)
(* arithmetic operation rounds its result to eight digits, as every float  *)
(* operation rounds to 53 bits.  Float division by zero raises             *)
(* ZeroDivisionError in Python; here it yields the value Bad, which every  *)
(* later operation propagates and which the method that computed it turns  *)
(* into a raised exception.  Overflow to inf is not modelled: no value of  *)
(* the model comes near the float range.                                   *)
(***************************************************************************)
EXTENDS Integers, Sequences, FiniteSets, TLC

----------------------------------------------------------------------------
(* Float arithmetic                                                        *)

MantLo == 10^7          \* smallest eight-digit mantissa
MantHi == 10^8          \* one more than the largest
Limb   == 10^4          \* the mantissa is multiplied in two four-digit halves

Sgn(n)  == IF n < 0 THEN -1 ELSE IF n > 0 THEN 1 ELSE 0
AbsI(n) == IF n < 0 THEN -n ELSE n

None == <<>>            \* Python's None
Bad  == <<0, 1>>        \* the operation raised ZeroDivisionError
Zero == <<0, 0>>        \* 0.0

RECURSIVE NormMag(_, _)
NormMag(a, e) ==
    IF a >= MantHi THEN NormMag((a + 5) \div 10, e + 1)
    ELSE IF a < MantLo THEN NormMag(a * 10, e - 1)
    ELSE <<a, e>>

\* m * 10^e rounded to eight significant digits
Norm(m, e) ==
    IF m = 0 THEN Zero
    ELSE LET r == NormMag(AbsI(m), e) IN <<Sgn(m) * r[1], r[2]>>

Float(n) == Norm(n, 0)          \* float(n) of a Python int
One == Float(1)

Neg(a)  == IF a = Bad THEN Bad ELSE <<-a[1], a[2]>>
AbsF(a) == IF a = Bad THEN Bad ELSE <<AbsI(a[1]), a[2]>>

\* a nonnegative mantissa shifted right by d digits, rounded
Shr(m, d) ==
    IF d <= 0 THEN m
    ELSE IF d > 9 THEN 0
    ELSE (m + 5 * 10^(d - 1)) \div 10^d

AddOrdered(a, b) ==     \* a[2] >= b[2], neither is zero
    LET d == a[2] - b[2] IN
    IF d = 0 THEN Norm(a[1] + b[1], a[2])
    ELSE Norm(a[1] * 10 + Sgn(b[1]) * Shr(AbsI(b[1]), d - 1), a[2] - 1)

Add(a, b) ==
    IF a = Bad \/ b = Bad THEN Bad
    ELSE IF a[1] = 0 THEN b
    ELSE IF b[1] = 0 THEN a
    ELSE IF a[2] >= b[2] THEN AddOrdered(a, b) ELSE AddOrdered(b, a)

Sub(a, b) == Add(a, Neg(b))

Mul(a, b) ==
    IF a = Bad \/ b = Bad THEN Bad
    ELSE IF a[1] = 0 \/ b[1] = 0 THEN Zero
    ELSE LET x  == AbsI(a[1])
             y  == AbsI(b[1])
             x1 == x \div Limb
             x0 == x % Limb
             y1 == y \div Limb
             y0 == y % Limb
             mid == x1 * y0 + x0 * y1
             top == x1 * y1 * 10 + (mid * 10 + (x0 * y0) \div 1000) \div Limb
         IN Norm(Sgn(a[1]) * Sgn(b[1]) * top, a[2] + b[2] + 7)

RECURSIVE DivDigits(_, _, _, _)
DivDigits(q, r, y, k) ==        \* k more quotient digits by long division
    IF k = 0 THEN q
    ELSE DivDigits(q * 10 + (r * 10) \div y, (r * 10) % y, y, k - 1)

Div(a, b) ==
    IF a = Bad \/ b = Bad THEN Bad
    ELSE IF b[1] = 0 THEN Bad                   \* ZeroDivisionError
    ELSE IF a[1] = 0 THEN Zero
    ELSE LET x == AbsI(a[1])
             y == AbsI(b[1])
             q == DivDigits(x \div y, x % y, y, 8)
         IN Norm(Sgn(a[1]) * Sgn(b[1]) * q, a[2] - b[2] - 8)

\* -1, 0, 1 as a < b, a = b, a > b
Cmp(a, b) ==
    LET sa == Sgn(a[1])
        sb == Sgn(b[1])
    IN IF sa # sb THEN (IF sa < sb THEN -1 ELSE 1)
       ELSE IF sa = 0 THEN 0
       ELSE IF a[2] # b[2] THEN (IF a[2] > b[2] THEN sa ELSE -sa)
       ELSE IF a[1] = b[1] THEN 0
       ELSE IF a[1] > b[1] THEN 1 ELSE -1

Lt(a, b) == Cmp(a, b) < 0
Le(a, b) == Cmp(a, b) <= 0

\* int(a): truncation toward zero
Trunc(a) ==
    IF a[2] >= 0 THEN a[1] * 10^a[2]
    ELSE IF -a[2] > 8 THEN 0
    ELSE Sgn(a[1]) * (AbsI(a[1]) \div 10^(-a[2]))

\* x ** n for a Python int n (x ** 0 is 1.0 for every x, 0.0 ** -1 raises)
RECURSIVE PowPos(_, _)
PowPos(x, n) == IF n = 0 THEN One ELSE Mul(PowPos(x, n - 1), x)

Pow(x, n) == IF n < 0 THEN Div(One, PowPos(x, -n)) ELSE PowPos(x, n)

----------------------------------------------------------------------------
(* The Bond class                                                          *)

\* Float literals of the source and of scipy.optimize.newton's secant branch.
\* newton's default tolerance, 1.48e-8, is the square root of the float
\* precision (2.2e-16); the model's arithmetic has precision 1e-8, and its
\* tolerance is the square root of that.
eps     == Norm(1, -4)          \* newton: the second starting point's offset
tol     == Norm(1, -4)          \* newton: the step below which it returns
maxiter == 50                   \* newton: the iteration cap
TenThousand == Float(10000)     \* dv01: basis points per unit of yield

NoBond == [exists |-> FALSE]

\* The object __init__ receives: no attribute is set yet.
Blank ==
    [exists |-> TRUE, coupon_rate |-> None, maturity |-> None, par |-> None,
     terms_per_year |-> None, init_guess |-> None, coupon_payment |-> None,
     total_periods |-> None, ytm_annual |-> None, price |-> None,
     macaulay_duration |-> None, modified_duration |-> None,
     convexity |-> None]

\* sum(self.coupon_payment / (1+per_rate)**i for i in range(1, n+1))
RECURSIVE pv_coupons(_, _, _)
pv_coupons(self, base, n) ==
    IF n <= 0 THEN Zero
    ELSE Add(pv_coupons(self, base, n - 1),
             Div(self.coupon_payment, Pow(base, n)))

\* pv_coupons + pv_par, with base the value of 1+per_rate
present_value(self, base) ==
    Add(pv_coupons(self, base, self.total_periods),
        Div(self.par, Pow(base, self.total_periods)))

calculate_price_from_ytm(self, ytm_annual) ==
    present_value(self, Add(One, Div(ytm_annual, Float(self.terms_per_year))))

\* f(ytm_guess) of _calculate_ytm_from_price
ytm_equation(self, price, ytm_guess) ==
    Sub(present_value(self,
                      Add(One, Div(ytm_guess, Float(self.terms_per_year)))),
        price)

Solved(st, p, n) == [status |-> st, root |-> p, iterations |-> n]

\* The secant branch of scipy.optimize.newton (fprime=None, disp=True).
\* secant is the loop entered with itr iterations done; secant_p goes on
\* from the new point p, secant_q from the function's value q at it.
RECURSIVE secant(_, _, _, _, _, _, _)
secant_q(self, price, p1, q1, p, q, itr) ==
    IF q = Bad THEN Solved("ZeroDivisionError", None, itr + 1)
    ELSE secant(self, price, p1, q1, p, q, itr + 1)

secant_p(self, price, p1, q1, p, itr) ==
    IF p = Bad THEN Solved("ZeroDivisionError", None, itr + 1)
    ELSE IF Le(AbsF(Sub(p, p1)), tol) THEN Solved("ok", p, itr + 1)
    ELSE secant_q(self, price, p1, q1, p, ytm_equation(self, price, p), itr)

secant(self, price, p0, q0, p1, q1, itr) ==
    IF itr = maxiter THEN Solved("RuntimeError", None, itr)
    ELSE IF q1 = q0
    THEN IF p1 # p0 THEN Solved("RuntimeError", None, itr + 1)
         ELSE Solved("ok", Div(Add(p1, p0), Float(2)), itr + 1)
    ELSE secant_p(self, price, p1, q1,
                  IF Lt(AbsF(q0), AbsF(q1))
                  THEN Div(Add(Mul(Div(Neg(q0), q1), p1), p0),
                           Sub(One, Div(q0, q1)))
                  ELSE Div(Add(Mul(Div(Neg(q1), q0), p0), p1),
                           Sub(One, Div(q1, q0))),
                  itr)

\* newton once both starting points and the function's values are known
newton_start(self, price, p0, q0, p1, q1) ==
    IF q0 = Bad \/ q1 = Bad THEN Solved("ZeroDivisionError", None, 0)
    ELSE IF Lt(AbsF(q1), AbsF(q0))
         THEN secant(self, price, p1, q1, p0, q0, 0)
         ELSE secant(self, price, p0, q0, p1, q1, 0)

\* p1 += (eps if p1 >= 0 else -eps)
newton_p1(p1) == Add(p1, IF Lt(p1, Zero) THEN Neg(eps) ELSE eps)

newton_points(self, price, p0, p1) ==
    newton_start(self, price, p0, ytm_equation(self, price, p0),
                 p1, ytm_equation(self, price, p1))

\* newton(ytm_equation, self.init_guess)
newton(self, price, x0) ==
    newton_points(self, price, x0, newton_p1(Mul(x0, Add(One, eps))))

calculate_ytm_from_price(self, price) == newton(self, price, self.init_guess)

\* the loop of _calculate_macaulay_duration over i = 1..n
RECURSIVE macaulay_coupons(_, _, _)
macaulay_coupons(self, base, n) ==
    IF n <= 0 THEN Zero
    ELSE Add(macaulay_coupons(self, base, n - 1),
             Div(Mul(Div(Float(n), Float(self.terms_per_year)),
                     self.coupon_payment),
                 Pow(base, n)))

macaulay_numerator(self, base) ==
    Add(macaulay_coupons(self, base, self.total_periods),
        Div(Mul(self.maturity, self.par), Pow(base, self.total_periods)))

calculate_macaulay_duration(self) ==
    Div(macaulay_numerator(
            self, Add(One, Div(self.ytm_annual, Float(self.terms_per_year)))),
        self.price)

calculate_modified_duration(self) ==
    Div(self.macaulay_duration,
        Add(One, Div(self.ytm_annual, Float(self.terms_per_year))))

\* the loop of _calculate_convexity over i = 1..n
RECURSIVE convexity_coupons(_, _, _)
convexity_coupons(self, base, n) ==
    IF n <= 0 THEN Zero
    ELSE Add(convexity_coupons(self, base, n - 1),
             Div(Mul(Float(n * (n + 1)), self.coupon_payment),
                 Pow(base, n + 2)))

convexity_numerator(self, base, n) ==
    Add(convexity_coupons(self, base, n),
        Div(Mul(Float(n * (n + 1)), self.par), Pow(base, n + 2)))

calculate_convexity(self) ==
    Div(convexity_numerator(
            self, Add(One, Div(self.ytm_annual, Float(self.terms_per_year))),
            self.total_periods),
        Mul(self.price, Float(self.terms_per_year * self.terms_per_year)))

----------------------------------------------------------------------------
(* Methods.  A call yields the exception it raised ("none" when it         *)
(* returned), the object as the call left it, and the value returned.      *)
(* An assignment self.x = f(...) is an operator store_x(self, v) applied   *)
(* to the value of f(...): f raised if v is Bad, and then nothing is       *)
(* stored.                                                                 *)

Raised(x, self)   == [exc |-> x, self |-> self, ret |-> None]
Returned(self, v) == [exc |-> "none", self |-> self, ret |-> v]

NoSolve == [status |-> "unused", root |-> None, iterations |-> 0]

\* self.convexity = self._calculate_convexity()
store_convexity(self, v) ==
    IF v = Bad THEN Raised("ZeroDivisionError", self)
    ELSE Returned([self EXCEPT !.convexity = v], None)

convexity_next(self) == store_convexity(self, calculate_convexity(self))

\* self.modified_duration = self._calculate_modified_duration()
store_modified_duration(self, v) ==
    IF v = Bad THEN Raised("ZeroDivisionError", self)
    ELSE convexity_next([self EXCEPT !.modified_duration = v])

modified_duration_next(self) ==
    store_modified_duration(self, calculate_modified_duration(self))

\* self.macaulay_duration = self._calculate_macaulay_duration()
store_macaulay_duration(self, v) ==
    IF v = Bad THEN Raised("ZeroDivisionError", self)
    ELSE modified_duration_next([self EXCEPT !.macaulay_duration = v])

\* lines 59-62 of __init__ and lines 104-106 of set_ytm
precompute(self) ==
    store_macaulay_duration(self, calculate_macaulay_duration(self))

\* self.price = ..., then the durations and the convexity
store_price(self, v) ==
    IF v = Bad THEN Raised("ZeroDivisionError", self)
    ELSE precompute([self EXCEPT !.price = v])

\* lines 53-57 of __init__: self has ytm_annual
init_price(self, price) ==
    store_price(self, IF price = None
                      THEN calculate_price_from_ytm(self, self.ytm_annual)
                      ELSE price)

\* lines 47-62 of __init__ once the solver, if it was needed, has ended
init_solved(self, ytm, price, sol) ==
    IF ytm = None /\ sol.status # "ok"
    THEN [Raised(sol.status, self) EXCEPT !.ret = sol]
    ELSE [init_price([self EXCEPT !.ytm_annual =
                                      IF ytm # None THEN ytm ELSE sol.root],
                     price)
          EXCEPT !.ret = sol]

\* lines 43-62 of __init__: self has the terms, coupon_payment, total_periods
init_values(self, ytm, price) ==
    IF ytm = None /\ price = None
    THEN [Raised("ValueError", self) EXCEPT !.ret = NoSolve]
    ELSE init_solved(self, ytm, price,
                     IF ytm # None THEN NoSolve
                     ELSE calculate_ytm_from_price(self, price))

\* lines 38-62 of __init__: self has the five arguments stored
init_terms(self, ytm, price, cp) ==
    IF cp = Bad
    THEN [Raised("ZeroDivisionError", self) EXCEPT !.ret = NoSolve]
    ELSE init_values(
             [self EXCEPT !.coupon_payment = cp,
                          !.total_periods =
                              Trunc(Mul(self.maturity,
                                        Float(self.terms_per_year)))],
             ytm, price)

\* Bond.__init__; the value "returned" is the solver's outcome, kept for the
\* properties of the yield solving
Bond(coupon_rate, ytm, maturity, par, price, terms_per_year, init_guess) ==
    IF coupon_rate = None \/ par = None \/ maturity = None
    THEN [Raised("ValueError", Blank) EXCEPT !.ret = NoSolve]
    ELSE init_terms([Blank EXCEPT !.coupon_rate = coupon_rate,
                                  !.maturity = maturity,
                                  !.par = par,
                                  !.terms_per_year = terms_per_year,
                                  !.init_guess = init_guess],
                    ytm, price,
                    Div(Mul(coupon_rate, par), Float(terms_per_year)))

\* set_ytm without line 103: the price is left as it was
set_ytm_keeps_price(self, new_ytm) ==
    precompute([self EXCEPT !.ytm_annual = new_ytm])

\* set_ytm that takes the new yield for the coupon rate as well
set_ytm_resets_coupon(self, new_ytm) ==
    store_price([self EXCEPT !.ytm_annual = new_ytm,
                             !.coupon_rate = new_ytm],
                calculate_price_from_ytm(self, new_ytm))

set_ytm(self, new_ytm) ==
    store_price([self EXCEPT !.ytm_annual = new_ytm],
                calculate_price_from_ytm(self, new_ytm))

\* return new_price - self.price
dv01_return(self, new_price) ==
    IF new_price = Bad THEN Raised("ZeroDivisionError", self)
    ELSE Returned(self, Sub(new_price, self.price))

\* dv01 that bumps the stored yield instead of a local copy
dv01_bumps_self(self, bp) ==
    dv01_return([self EXCEPT !.ytm_annual =
                                 Add(self.ytm_annual,
                                     Div(Float(bp), TenThousand))],
                calculate_price_from_ytm(
                    self, Add(self.ytm_annual, Div(Float(bp), TenThousand))))

dv01(self, bp) ==
    dv01_return(self,
                calculate_price_from_ytm(
                    self, Add(self.ytm_annual, Div(Float(bp), TenThousand))))

\* a caller's b._calculate_price_from_ytm(y), as in the notebook's cell 4
price_return(self, pr) ==
    IF pr = Bad THEN Raised("ZeroDivisionError", self)
    ELSE Returned(self, pr)

price_from_ytm(self, y) == price_return(self, calculate_price_from_ytm(self, y))

----------------------------------------------------------------------------
(* The program: one Bond is constructed, then a caller sets yields and     *)
(* reads sensitivities, as the notebook's cells do.                        *)

VARIABLES
    bond,       \* the constructed object, NoBond before and after a failure
    ctor,       \* the arguments the constructor was called with
    call,       \* the last call: its name and argument
    exc,        \* the exception the last call raised, "none" if it returned
    ret,        \* the value the last call returned
    partial,    \* the object as a failed __init__ left it (never returned)
    solver,     \* outcome of the constructor's yield solving, if any
    second,     \* the round trip: a second Bond built from bond.price alone
    nops        \* calls made on the object

vars == <<bond, ctor, call, exc, ret, partial, solver, second, nops>>

MaxOps == 2     \* calls made on one object

Y(m) == Norm(m, -4)     \* a yield or rate given in basis points

DefaultGuess == Norm(5, -2)     \* init_guess=0.05
DefaultTerms == 2               \* terms_per_year=2

Args(c, y, mat, par, pr, m) ==
    [coupon_rate |-> c, ytm |-> y, maturity |-> mat, par |-> par,
     price |-> pr, terms_per_year |-> m, init_guess |-> DefaultGuess]

\* what is given of ytm and price: the one, the other, both, neither
Given ==
    { <<Y(800), None>>, <<None, Float(100)>>, <<None, Float(360)>>,
      <<Y(800), Float(100)>>, <<None, None>> }

\* bonds of the notebook's kind, with whole and fractional period counts
UsualArgs ==
    { Args(c, g[1], mat, Float(100), g[2], m) :
        c \in {Zero, Y(900)}, g \in Given,
        mat \in {Float(1), Float(2), Norm(25, -2)}, m \in {1, DefaultTerms} }

\* a required argument left out
MissingArgs ==
    { Args(a[1], g[1], a[2], a[3], g[2], DefaultTerms) :
        a \in { <<None, Float(2), Float(100)>>, <<Y(900), None, Float(100)>>,
                <<Y(900), Float(2), None>> },
        g \in { <<Y(800), None>>, <<None, None>> } }

\* terms_per_year, maturity or par not positive
NonPositiveArgs ==
    { Args(Y(900), g[1], a[1], a[2], g[2], a[3]) :
        a \in { <<Float(2), Float(100), 0>>, <<Float(2), Float(100), -2>>,
                <<Zero, Float(100), 2>>, <<Float(-1), Float(100), 2>>,
                <<Float(2), Zero, 2>>, <<Float(2), Float(-100), 2>> },
        g \in { <<Y(800), None>>, <<None, Float(100)>>, <<None, None>> } }

\* a coupon as large as the face value, whose price vanishes at one yield
HighCouponArgs ==
    { Args(Float(2), Y(800), Float(1), Float(100), None, DefaultTerms) }

\* a coupon equal to the yield, as the notebook's Bond1, alone and with a
\* price beside it
ParArgs ==
    { Args(Y(900), Y(900), Float(2), Float(100), pr, DefaultTerms) :
        pr \in {None, Float(95)} }

CtorArgs ==
    UsualArgs \cup MissingArgs \cup NonPositiveArgs \cup HighCouponArgs
        \cup ParArgs

NewYields == { Y(600), Y(900), Float(-1), Float(-2), Float(-6) }
Bumps     == { 1, -1, 100, -100 }
Quotes    == { Y(901) }

NoCall == [name |-> "none", arg |-> None]

Init ==
    /\ bond = NoBond
    /\ ctor = None
    /\ call = NoCall
    /\ exc = "none"
    /\ ret = None
    /\ partial = NoBond
    /\ solver = NoSolve
    /\ second = None
    /\ nops = 0

\* the outcome r of a call on the object
Called(r) ==
    /\ bond' = r.self
    /\ exc' = r.exc
    /\ ret' = r.ret
    /\ nops' = nops + 1
    /\ UNCHANGED <<ctor, partial, solver, second>>

\* the outcome r of b = Bond(...): an exception leaves the caller no object
Constructed(r) ==
    /\ bond' = IF r.exc = "none" THEN r.self ELSE NoBond
    /\ partial' = IF r.exc = "none" THEN NoBond ELSE r.self
    /\ exc' = r.exc
    /\ solver' = r.ret
    /\ ret' = None
    /\ UNCHANGED <<second, nops>>

\* b = Bond(...)
Construct(a) ==
    /\ call = NoCall
    /\ Constructed(Bond(a.coupon_rate, a.ytm, a.maturity, a.par, a.price,
                        a.terms_per_year, a.init_guess))
    /\ ctor' = a
    /\ call' = [name |-> "Bond", arg |-> None]

SecondConstructed(r) ==
    second' = [exc |-> r.exc,
               self |-> IF r.exc = "none" THEN r.self ELSE NoBond]

\* Bond(coupon_rate, None, maturity, par, b.price, terms_per_year) for a b
\* that was itself built from a yield alone
ConstructSecond ==
    /\ bond # NoBond
    /\ call.name = "Bond"
    /\ ctor.ytm # None /\ ctor.price = None
    /\ SecondConstructed(Bond(ctor.coupon_rate, None, ctor.maturity, ctor.par,
                              bond.price, ctor.terms_per_year,
                              ctor.init_guess))
    /\ call' = [name |-> "Bond2", arg |-> None]
    /\ UNCHANGED <<bond, ctor, exc, ret, partial, solver, nops>>

Live == bond # NoBond /\ nops < MaxOps

\* b.set_ytm(y)
SetYtm(y) ==
    /\ Live
    /\ Called(set_ytm(bond, y))
    /\ call' = [name |-> "set_ytm", arg |-> y]

\* b.dv01(bp)
Dv01(bp) ==
    /\ Live
    /\ Called(dv01(bond, bp))
    /\ call' = [name |-> "dv01", arg |-> Float(bp)]

\* b._calculate_price_from_ytm(y)
PriceFromYtm(y) ==
    /\ Live
    /\ Called(price_from_ytm(bond, y))
    /\ call' = [name |-> "price_from_ytm", arg |-> y]

Next ==
    \/ \E a \in CtorArgs : Construct(a)
    \/ ConstructSecond
    \/ \E y \in NewYields : SetYtm(y)
    \/ \E bp \in Bumps : Dv01(bp)
    \/ \E y \in Quotes : PriceFromYtm(y)

Spec == Init /\ [][Next]_vars

----------------------------------------------------------------------------
(* Properties                                                              *)

Within(a, b, t) == a # Bad /\ b # Bad /\ Le(AbsF(Sub(a, b)), t)

RoundTripTol == Norm(1, -6)     \* the round trip's tolerance, 1e-6

\* The solver's tolerance bounds the last step of the yield; the price at
\* the returned yield is held to a cent, which the rounding of the 8-digit
\* arithmetic meets for every yield the solver returns here.
PriceTol == Norm(1, -2)

Constructs == call.name = "Bond"

\* the constructor's arguments are all there and positive where the
\* specification wants them positive
ValidTerms ==
    /\ ctor.coupon_rate # None /\ ctor.par # None /\ ctor.maturity # None
    /\ Le(Zero, ctor.coupon_rate)
    /\ Lt(Zero, ctor.par)
    /\ Lt(Zero, ctor.maturity)
    /\ ctor.terms_per_year > 0

\* the object with its yield replaced by y and its price by the price at y
AtYield(b, y) ==
    [b EXCEPT !.ytm_annual = y, !.price = calculate_price_from_ytm(b, y)]

\* C1: in every state of a constructed Bond the stored price is the price
\* formula's value at the stored ytm_annual, exactly, or within PriceTol when
\* the constructor solved the yield from a price.
C1_PriceMatchesYield ==
    bond # NoBond =>
        IF ctor.ytm = None
        THEN Within(bond.price,
                    calculate_price_from_ytm(bond, bond.ytm_annual), PriceTol)
        ELSE bond.price = calculate_price_from_ytm(bond, bond.ytm_annual)

\* C2: when set_ytm(y) has returned, ytm_annual is y, price is the price
\* formula's value at y, and both durations and the convexity are their
\* formulas' values at y and that price, whatever the state before the call.
C2_SetYtmRecomputesAll ==
    (call.name = "set_ytm" /\ exc = "none") =>
        /\ bond.ytm_annual = call.arg
        /\ bond.price = calculate_price_from_ytm(bond, call.arg)
        /\ bond.macaulay_duration =
               calculate_macaulay_duration(AtYield(bond, call.arg))
        /\ bond.modified_duration =
               Div(calculate_macaulay_duration(AtYield(bond, call.arg)),
                   Add(One, Div(call.arg, Float(bond.terms_per_year))))
        /\ bond.convexity = calculate_convexity(AtYield(bond, call.arg))

\* a second call on a Bond built with both a yield and a price: set_ytm
\* returned and replaced the supplied price
C2_Witness ==
    /\ call.name = "set_ytm" /\ exc = "none" /\ nops = 2
    /\ ctor.ytm # None /\ ctor.price # None
    /\ bond.price # ctor.price
    /\ bond.ytm_annual # ctor.ytm

\* C3: built with both a yield and a price, a Bond stores the yield and the
\* price recomputed from it.
C3_YieldAuthoritative ==
    (Constructs /\ bond # NoBond /\ ctor.ytm # None /\ ctor.price # None) =>
        /\ bond.ytm_annual = ctor.ytm
        /\ bond.price = calculate_price_from_ytm(bond, ctor.ytm)

\* C4: for a Bond with par > 0 and coupon_rate >= 0, dv01(bp) is negative
\* for bp > 0 and positive for bp < 0.
C4_Dv01Sign ==
    (/\ call.name = "dv01" /\ exc = "none"
     /\ Lt(Zero, bond.par) /\ Le(Zero, bond.coupon_rate)) =>
        /\ Lt(Zero, call.arg) => Lt(ret, Zero)
        /\ Lt(call.arg, Zero) => Lt(Zero, ret)

\* C5: a Bond built from a yield, then a second Bond with the same terms
\* built from the first one's price alone: the second one's ytm_annual is
\* the first one's within 1e-6.
C5_RoundTrip ==
    (call.name = "Bond2" /\ ValidTerms) =>
        /\ second.exc = "none"
        /\ Within(second.self.ytm_annual, ctor.ytm, RoundTripTol)

\* C6: the constructor raises ValueError and leaves no object when
\* terms_per_year, maturity or par is not positive.
C6_NonPositiveRejected ==
    (/\ Constructs
     /\ \/ ctor.terms_per_year <= 0
        \/ ctor.maturity # None /\ Le(ctor.maturity, Zero)
        \/ ctor.par # None /\ Le(ctor.par, Zero)) =>
        exc = "ValueError" /\ bond = NoBond

\* C7: the constructor raises ValueError when coupon_rate, par or maturity
\* is absent and when ytm and price are both absent, before it has computed
\* a yield, a price, a duration or the convexity, and leaves no object.
C7_MissingRejected ==
    (/\ Constructs
     /\ \/ ctor.coupon_rate = None \/ ctor.par = None \/ ctor.maturity = None
        \/ ctor.ytm = None /\ ctor.price = None) =>
        /\ exc = "ValueError" /\ bond = NoBond
        /\ partial.ytm_annual = None /\ partial.price = None
        /\ partial.macaulay_duration = None
        /\ partial.modified_duration = None
        /\ partial.convexity = None

\* the object the solver worked on
SolverSelf == IF bond # NoBond THEN bond ELSE partial

\* C8: yield solving ends within the iteration cap, either with a yield y
\* such that 1 + y/terms_per_year > 0 and the price at y is the target
\* within PriceTol, or with the convergence error.
C8_SolverOutcome ==
    (Constructs /\ ValidTerms /\ solver.status # "unused") =>
        /\ solver.iterations <= maxiter
        /\ solver.status \in {"ok", "RuntimeError"}
        /\ solver.status = "ok" =>
            /\ Lt(Zero, Add(One, Div(solver.root,
                                     Float(ctor.terms_per_year))))
            /\ Within(calculate_price_from_ytm(SolverSelf, solver.root),
                      ctor.price, PriceTol)

\* C9: dv01(bp) returns the price formula's value at ytm_annual + bp/10000
\* less the stored price, _calculate_price_from_ytm(y) returns the formula's
\* value at y, and neither changes any attribute of the Bond.
C9_ReadsLeaveBond ==
    [][(nops' = nops + 1 /\ call'.name \in {"dv01", "price_from_ytm"}) =>
        /\ bond' = bond
        /\ (call'.name = "dv01" /\ exc' = "none") =>
               ret' = Sub(calculate_price_from_ytm(
                              bond, Add(bond.ytm_annual,
                                        Div(call'.arg, TenThousand))),
                          bond.price)
        /\ (call'.name = "price_from_ytm" /\ exc' = "none") =>
               ret' = calculate_price_from_ytm(bond, call'.arg)]_vars

\* dv01 returned a price change for a negative bump
C9_Witness ==
    /\ call.name = "dv01" /\ exc = "none"
    /\ Lt(call.arg, Zero) /\ Lt(Zero, ret)
    /\ bond.price = calculate_price_from_ytm(bond, bond.ytm_annual)

\* C10: in every state of a constructed Bond, modified_duration is
\* macaulay_duration / (1 + ytm_annual/terms_per_year) of the stored
\* macaulay_duration and ytm_annual.
C10_ModifiedRelation ==
    bond # NoBond =>
        bond.modified_duration = calculate_modified_duration(bond)

\* C11: a Bond whose coupon_rate equals its ytm_annual, at construction or
\* after set_ytm(coupon_rate), has its stored price equal to par (within
\* PriceTol), for the terms the specification allows.
C11_ParBond ==
    (/\ bond # NoBond /\ ValidTerms
     /\ call.name \in {"Bond", "set_ytm"} /\ exc = "none"
     /\ bond.ytm_annual = bond.coupon_rate) =>
        Within(bond.price, bond.par, PriceTol)

DurationTol == Norm(1, -4)     \* the tolerance of a duration, in years

\* C12: a Bond with coupon_rate = 0 has macaulay_duration equal to maturity
\* (within DurationTol) in every state, whatever it was constructed from,
\* whatever yield was set, and whether or not maturity * terms_per_year is
\* whole.
C12_ZeroCouponDuration ==
    (bond # NoBond /\ bond.coupon_rate = Zero) =>
        Within(bond.macaulay_duration, bond.maturity, DurationTol)

\* the fixed terms of an object and what __init__ derives from them
Terms(b) ==
    <<b.coupon_rate, b.par, b.maturity, b.terms_per_year, b.total_periods,
      b.coupon_payment>>

\* C13: no set_ytm, dv01 or price-from-yield call, whether it returns or
\* raises, changes coupon_rate, par, maturity, terms_per_year, total_periods
\* or coupon_payment: all six stay at the values __init__ gave them.
C13_TermsFixed ==
    [][(bond # NoBond /\ nops' = nops + 1) =>
        /\ bond' # NoBond
        /\ Terms(bond') = Terms(bond)
        /\ Terms(bond') =
               <<ctor.coupon_rate, ctor.par, ctor.maturity,
                 ctor.terms_per_year,
                 Trunc(Mul(ctor.maturity, Float(ctor.terms_per_year))),
                 Div(Mul(ctor.coupon_rate, ctor.par),
                     Float(ctor.terms_per_year))>>]_vars

\* two calls were made, the last a set_ytm that returned with a new yield
\* and a new price
C13_Witness ==
    /\ nops = 2 /\ call.name = "set_ytm" /\ exc = "none"
    /\ ctor.ytm # None /\ bond.ytm_annual # ctor.ytm
    /\ Lt(Zero, bond.coupon_payment) /\ bond.total_periods = 4

\* C14: a set_ytm call that raises leaves ytm_annual, price,
\* macaulay_duration, modified_duration and convexity as they were before
\* the call.
C14_FailedSetYtmRestores ==
    [][(nops' = nops + 1 /\ call'.name = "set_ytm" /\ exc' # "none") =>
        /\ bond'.ytm_annual = bond.ytm_annual
        /\ bond'.price = bond.price
        /\ bond'.macaulay_duration = bond.macaulay_duration
        /\ bond'.modified_duration = bond.modified_duration
        /\ bond'.convexity = bond.convexity]_vars

====
